---- MODULE Spec2Model ----
(***************************************************************************)
(* A model of one OLSR node of olsrsim: the tick loop Node.run, the HELLO  *)
(* and TC handlers and the pure table functions they call.                 *)
(*                                                                         *)
(* Conventions.  A Go slice of NodeIDs that the code only ranges over      *)
(* (HelloMessage.unidir/bidir/mpr, TCMessage.ms) is the set of its         *)
(* elements.  A Go map is a function whose DOMAIN is the key set; the      *)
(* inner maps of twoHopNeighbors and msSet map an ID to itself and are the *)
(* set of their keys.                                                      *)
(***************************************************************************)
EXTENDS Integers, Sequences, FiniteSets, TLC

VARIABLES
    pc,                 \* position of Node.run inside the current tick
    rx,                 \* which case of run's select ran in the current tick
    currentTime,        \* Node.currentTime
    oneHopNeighbors,    \* Node.oneHopNeighbors
    twoHopNeighbors,    \* Node.twoHopNeighbors
    msSet,              \* Node.msSet
    topologyTable,      \* Node.topologyTable
    tcSequenceNum,      \* Node.tcSequenceNum
    neighborHoldTime,   \* Node.neighborHoldTime
    topologyHoldTime,   \* Node.topologyHoldTime
    output,             \* messages written to Node.output during this tick
    tcLog,              \* seq fields of the TCs sendTC has written, in order
    ctxDone,            \* run's ctx has been cancelled
    draining            \* the harness still receives from Node.output

vars == <<pc, rx, currentTime, oneHopNeighbors, twoHopNeighbors, msSet,
          topologyTable, tcSequenceNum, neighborHoldTime, topologyHoldTime,
          output, tcLog, ctxDone, draining>>

tables == <<oneHopNeighbors, twoHopNeighbors, msSet, topologyTable>>
\* What no step of the loop writes: the hold times, and the two things the
\* harness decides, the context and the receiving end of Node.output.
config == <<neighborHoldTime, topologyHoldTime, ctxDone, draining>>

----------------------------------------------------------------------------
(* Bounds of the model.                                                    *)

\* Ticks the loop runs in the node specifications.
MaxTime == 4
\* Ticks the loop runs in the TC specification.
MaxTimeTC == 20
\* Ticks the loop runs in the cancellation specification.
MaxTimeCancel == 5
\* nodeMsg.delay of the modelled node.
DataDelay == 1
\* Largest seq of a received TC.
MaxSeq == 2
\* neighborHoldTime of the modelled node.  NewNode sets 15; the model scales
\* the hold down so that expiry happens within MaxTime ticks.
NeighborHold == 2
\* topologyHoldTime of a node whose caller configured it (SpecTC).
TopologyHold == 2

----------------------------------------------------------------------------
(* Program constants.                                                      *)

Bidirectional == 0
Unidirectional == 1
MPR == 2

HelloInterval == 5
TCInterval == 10

\* The modelled node's own NodeID.
id == 0

\* The nodes whose HELLOs reach the modelled node, and every NodeID a HELLO
\* can mention.
Neighbors == {1, 2}
NodeIDs == {0, 1, 2, 3}

EmptyMap == [k \in {} |-> 0]

Restrict(f, S) == [k \in S |-> f[k]]

----------------------------------------------------------------------------
(* Messages.                                                               *)

HelloMessage(src, unidir, bidir, mpr) ==
    [type |-> "HELLO", src |-> src, unidir |-> unidir, bidir |-> bidir,
     mpr |-> mpr]

TCMessage(src, fromnbr, seq, ms) ==
    [type |-> "TC", src |-> src, fromnbr |-> fromnbr, seq |-> seq, ms |-> ms]

DataMessage(src, dst, nxtHop, fromnbr, data) ==
    [type |-> "DATA", src |-> src, dst |-> dst, nxtHop |-> nxtHop,
     fromnbr |-> fromnbr, data |-> data]

\* The HELLOs a neighbor's sendHello can build: it puts every one-hop
\* neighbor it knows in exactly one of the three lists, by its state.
\* f[i] = 0: i is not listed, 1: unidir, 2: bidir, 3: mpr.
HellosOf(srcs, ids) ==
    UNION { { HelloMessage(s, {i \in ids \ {s} : f[i] = 1},
                              {i \in ids \ {s} : f[i] = 2},
                              {i \in ids \ {s} : f[i] = 3})
              : f \in [ids \ {s} -> 0..3] } : s \in srcs }

TCsOf(srcs, seqs, dsts) ==
    { TCMessage(s, 1, q, ms) : s \in srcs, q \in seqs, ms \in SUBSET dsts }

----------------------------------------------------------------------------
(* HELLO reception.                                                        *)

OneHopNeighborEntry(k, st, h) ==
    [neighborID |-> k, state |-> st, holdUntil |-> h]

\* Mutant: a first HELLO that lists this node makes its sender Bidirectional
\* at once.
updateOneHopNeighborsEager(msg, one, holdUntil, self) ==
    LET st == IF self \in (msg.unidir \cup msg.bidir \cup msg.mpr)
              THEN Bidirectional
              ELSE IF msg.src \in DOMAIN one THEN one[msg.src].state
              ELSE Unidirectional
    IN  [k \in DOMAIN one \cup {msg.src} |->
            IF k = msg.src
            THEN [neighborID |-> msg.src, state |-> st, holdUntil |-> holdUntil]
            ELSE one[k]]

\* Mutant: the link state is recomputed from the lists, so a HELLO that no
\* longer lists this node demotes its sender.
updateOneHopNeighborsDemote(msg, one, holdUntil, self) ==
    IF msg.src \notin DOMAIN one
    THEN (msg.src :> [neighborID |-> msg.src, state |-> Unidirectional,
                      holdUntil |-> holdUntil]) @@ one
    ELSE [one EXCEPT ![msg.src] =
            [neighborID |-> @.neighborID,
             state |-> IF self \in (msg.unidir \cup msg.bidir \cup msg.mpr)
                       THEN Bidirectional ELSE Unidirectional,
             holdUntil |-> holdUntil]]

updateOneHopNeighbors(msg, one, holdUntil, self) ==
    IF msg.src \notin DOMAIN one
    THEN (msg.src :> OneHopNeighborEntry(msg.src, Unidirectional, holdUntil))
         @@ one
    ELSE [one EXCEPT ![msg.src] =
            [neighborID |-> @.neighborID,
             state |-> IF self \in (msg.unidir \cup msg.bidir \cup msg.mpr)
                       THEN Bidirectional ELSE @.state,
             holdUntil |-> holdUntil]]

\* Mutant: the announced IDs are added to the set already stored.
updateTwoHopNeighborsMerge(msg, two, self) ==
    LET old == IF msg.src \in DOMAIN two THEN two[msg.src] ELSE {}
        twoHops == old \cup ((msg.unidir \cup msg.bidir) \ {self})
    IN  [k \in DOMAIN two \cup {msg.src} |->
            IF k = msg.src THEN twoHops ELSE two[k]]

updateTwoHopNeighbors(msg, two, self) ==
    LET twoHops == (msg.unidir \cup msg.bidir) \ {self}
    IN  [k \in DOMAIN two \cup {msg.src} |->
            IF k = msg.src THEN twoHops ELSE two[k]]

\* ohn, _ := oneHopNeighbors[node]: a missing key reads as the zero entry,
\* whose state is 0, that is, Bidirectional.
StateOf(one, node) ==
    IF node \in DOMAIN one THEN one[node].state ELSE Bidirectional

\* nodes: the two-hop keys that are not Unidirectional, after
\* sort.SliceStable by ascending NodeID.
RECURSIVE SortedNodes(_)
SortedNodes(S) ==
    IF S = {} THEN <<>>
    ELSE LET m == CHOOSE x \in S : \A y \in S : x <= y
         IN  <<m>> \o SortedNodes(S \ {m})

\* Mutant: every two-hop key is a candidate, whatever its link state.
CandidatesAnyState(one, two) == DOMAIN two

Candidates(one, two) ==
    {node \in DOMAIN two : StateOf(one, node) # Unidirectional}

\* remainingTwoHops as it would be if the two-hop sets of Unidirectional
\* neighbors were collected too.
RemainingTwoHopsAll(one, two) == UNION {two[node] : node \in DOMAIN two}

RemainingTwoHops(one, two) ==
    UNION {two[node] : node \in Candidates(one, two)}

\* for len(remainingTwoHops) > 0 { nodes[0] ... }: indexing an empty nodes
\* slice panics.
RECURSIVE MPRLoop(_, _, _, _)
MPRLoop(nodes, remaining, mprs, two) ==
    IF remaining = {} THEN [mprs |-> mprs, panic |-> FALSE]
    ELSE IF nodes = <<>> THEN [mprs |-> mprs, panic |-> TRUE]
    ELSE MPRLoop(Tail(nodes), remaining \ two[Head(nodes)],
                 mprs \cup {Head(nodes)}, two)

\* Mutant: the loop body runs once, as an if would.
SelectMPRsOnce(one, two) ==
    LET nodes == SortedNodes(Candidates(one, two))
    IN  IF RemainingTwoHops(one, two) = {} \/ nodes = <<>>
        THEN [mprs |-> {}, panic |-> FALSE]
        ELSE [mprs |-> {Head(nodes)}, panic |-> FALSE]

\* Mutant: the candidates are taken by descending NodeID.
SelectMPRsDescending(one, two) ==
    LET RECURSIVE Rev(_)
        Rev(q) == IF q = <<>> THEN <<>> ELSE Rev(Tail(q)) \o <<Head(q)>>
    IN  MPRLoop(Rev(SortedNodes(Candidates(one, two))),
                RemainingTwoHops(one, two), {}, two)

SelectMPRs(one, two) ==
    MPRLoop(SortedNodes(Candidates(one, two)), RemainingTwoHops(one, two),
            {}, two)

\* calculateMPRs as it would be if every neighbor that is not selected
\* were reset to Bidirectional.
calculateMPRsResetAll(one, two) ==
    LET mprs == SelectMPRs(one, two).mprs
    IN  [k \in DOMAIN one |->
            IF k \in mprs THEN [one[k] EXCEPT !.state = MPR]
            ELSE [one[k] EXCEPT !.state = Bidirectional]]

calculateMPRs(one, two) ==
    LET mprs == SelectMPRs(one, two).mprs
    IN  [k \in DOMAIN one |->
            IF k \in mprs THEN [one[k] EXCEPT !.state = MPR]
            ELSE IF one[k].state = MPR
                 THEN [one[k] EXCEPT !.state = Bidirectional]
                 ELSE one[k]]

\* Mutant: a known selector is removed without looking at the mpr list.
updateMSSetToggle(msg, ms, self) ==
    LET ok == msg.src \in ms
        isMS == self \in msg.mpr
    IN  IF ok THEN ms \ {msg.src}
        ELSE IF isMS THEN ms \cup {msg.src}
        ELSE ms

updateMSSet(msg, ms, self) ==
    LET ok == msg.src \in ms
        isMS == self \in msg.mpr
    IN  IF ok /\ ~isMS THEN ms \ {msg.src}
        ELSE IF ~ok /\ isMS THEN ms \cup {msg.src}
        ELSE ms

\* The node as a record, for the handlers that are applied to it.
Node ==
    [id |-> id, currentTime |-> currentTime,
     oneHopNeighbors |-> oneHopNeighbors, twoHopNeighbors |-> twoHopNeighbors,
     msSet |-> msSet, neighborHoldTime |-> neighborHoldTime]

handleHello(msg, n) ==
    LET one == updateOneHopNeighbors(msg, n.oneHopNeighbors,
                   n.currentTime + n.neighborHoldTime, n.id)
        two == updateTwoHopNeighbors(msg, n.twoHopNeighbors, n.id)
    IN  [n EXCEPT !.oneHopNeighbors = calculateMPRs(one, two),
                  !.twoHopNeighbors = two,
                  !.msSet = updateMSSet(msg, n.msSet, n.id)]

handleHelloPanics(msg, n) ==
    SelectMPRs(updateOneHopNeighbors(msg, n.oneHopNeighbors,
                   n.currentTime + n.neighborHoldTime, n.id),
               updateTwoHopNeighbors(msg, n.twoHopNeighbors, n.id)).panic

----------------------------------------------------------------------------
(* TC reception.                                                           *)

TopologyEntry(dst, dstMPR, msSeqNum, holdUntil) ==
    [dst |-> dst, dstMPR |-> dstMPR, msSeqNum |-> msSeqNum,
     holdUntil |-> holdUntil]

\* Mutant: a TC whose seq equals the stored one refreshes the hold too.
updateTopologyDstOrEqual(msg, topo, dst, holdUntil) ==
    IF dst \notin DOMAIN topo
    THEN msg.src :> [dst |-> dst, dstMPR |-> msg.src, msSeqNum |-> msg.seq,
                     holdUntil |-> holdUntil]
    ELSE IF msg.src \notin DOMAIN topo[dst]
    THEN (msg.src :> [dst |-> dst, dstMPR |-> msg.src, msSeqNum |-> msg.seq,
                      holdUntil |-> holdUntil]) @@ topo[dst]
    ELSE IF topo[dst][msg.src].msSeqNum <= msg.seq
    THEN [topo[dst] EXCEPT ![msg.src].holdUntil = holdUntil]
    ELSE topo[dst]

\* The iteration as it would be if a refresh also recorded the newer seq.
updateTopologyDstRecordSeq(msg, topo, dst, holdUntil) ==
    IF dst \notin DOMAIN topo
    THEN msg.src :> [dst |-> dst, dstMPR |-> msg.src, msSeqNum |-> msg.seq,
                     holdUntil |-> holdUntil]
    ELSE IF msg.src \notin DOMAIN topo[dst]
    THEN (msg.src :> [dst |-> dst, dstMPR |-> msg.src, msSeqNum |-> msg.seq,
                      holdUntil |-> holdUntil]) @@ topo[dst]
    ELSE IF topo[dst][msg.src].msSeqNum < msg.seq
    THEN [topo[dst] EXCEPT ![msg.src].holdUntil = holdUntil,
                           ![msg.src].msSeqNum = msg.seq]
    ELSE topo[dst]

\* One iteration of the loop over msg.ms: the inner map stored under dst
\* afterwards.
updateTopologyDst(msg, topo, dst, holdUntil) ==
    IF dst \notin DOMAIN topo
    THEN msg.src :> TopologyEntry(dst, msg.src, msg.seq, holdUntil)
    ELSE IF msg.src \notin DOMAIN topo[dst]
    THEN (msg.src :> TopologyEntry(dst, msg.src, msg.seq, holdUntil))
         @@ topo[dst]
    ELSE IF topo[dst][msg.src].msSeqNum < msg.seq
    THEN [topo[dst] EXCEPT ![msg.src].holdUntil = holdUntil]
    ELSE topo[dst]

updateTopologyTable(msg, topo, holdUntil) ==
    [dst \in DOMAIN topo \cup msg.ms |->
        IF dst \in msg.ms THEN updateTopologyDst(msg, topo, dst, holdUntil)
        ELSE topo[dst]]

----------------------------------------------------------------------------
(* The tick loop.                                                          *)

\* NewNode, then run's n.currentTime = 0, up to the first select.
InitNode(nHold, tHold) ==
    /\ pc = "select"
    /\ rx = "none"
    /\ currentTime = 0
    /\ oneHopNeighbors = EmptyMap
    /\ twoHopNeighbors = EmptyMap
    /\ msSet = {}
    /\ topologyTable = EmptyMap
    /\ tcSequenceNum = 0
    /\ neighborHoldTime = nHold
    /\ topologyHoldTime = tHold
    /\ output = <<>>
    /\ tcLog = <<>>
    /\ ctxDone = FALSE
    /\ draining = TRUE

\* case msg := <-n.input, a *HelloMessage.
RecvHello(msg) ==
    /\ pc = "select"
    /\ LET n == handleHello(msg, Node)
       IN  /\ oneHopNeighbors' = n.oneHopNeighbors
           /\ twoHopNeighbors' = n.twoHopNeighbors
           /\ msSet' = n.msSet
    /\ pc' = IF handleHelloPanics(msg, Node) THEN "panic" ELSE "hello"
    /\ rx' = "HELLO"
    /\ UNCHANGED <<currentTime, topologyTable, tcSequenceNum, config, output,
                   tcLog>>

\* handleTC as it would be if a TC that changes nothing in the topology
\* table were not forwarded.
RecvTCForwardFresh(msg) ==
    /\ pc = "select"
    /\ IF msg.src = id
       THEN UNCHANGED <<topologyTable, output>>
       ELSE /\ topologyTable' = updateTopologyTable(msg, topologyTable,
                                    currentTime + topologyHoldTime)
            /\ output' = IF draining /\ topologyTable' # topologyTable
                         THEN Append(output, [msg EXCEPT !.fromnbr = id])
                         ELSE output
    /\ pc' = IF msg.src = id \/ draining THEN "hello" ELSE "send"
    /\ rx' = "TC"
    /\ UNCHANGED <<currentTime, oneHopNeighbors, twoHopNeighbors, msSet,
                   tcSequenceNum, config, tcLog>>

\* case msg := <-n.input, a *TCMessage.  n.output <- msg completes only
\* while the harness receives; otherwise handleTC stays in the send.
RecvTC(msg) ==
    /\ pc = "select"
    /\ IF msg.src = id
       THEN UNCHANGED <<topologyTable, output>>
       ELSE /\ topologyTable' = updateTopologyTable(msg, topologyTable,
                                    currentTime + topologyHoldTime)
            /\ output' = IF draining
                         THEN Append(output, [msg EXCEPT !.fromnbr = id])
                         ELSE output
    /\ pc' = IF msg.src = id \/ draining THEN "hello" ELSE "send"
    /\ rx' = "TC"
    /\ UNCHANGED <<currentTime, oneHopNeighbors, twoHopNeighbors, msSet,
                   tcSequenceNum, config, tcLog>>

\* case msg := <-n.input, a *DataMessage: handleData only prints.
RecvData(msg) ==
    /\ pc = "select"
    /\ pc' = "hello"
    /\ rx' = "DATA"
    /\ UNCHANGED <<currentTime, tables, tcSequenceNum, config, output, tcLog>>

\* default: no message is ready and ctx is not done.
NoMsg ==
    /\ pc = "select"
    /\ ~ctxDone
    /\ pc' = "hello"
    /\ rx' = "none"
    /\ UNCHANGED <<currentTime, tables, tcSequenceNum, config, output, tcLog>>

HelloOf(one, self) ==
    HelloMessage(self,
        {one[k].neighborID : k \in {j \in DOMAIN one : one[j].state = Unidirectional}},
        {one[k].neighborID : k \in {j \in DOMAIN one : one[j].state = Bidirectional}},
        {one[k].neighborID : k \in {j \in DOMAIN one : one[j].state = MPR}})

\* sendHello as it would be if the sweep ran before the emissions.
sendHelloAfterSweep ==
    /\ pc = "hello"
    /\ (currentTime % HelloInterval = 0) => draining
    /\ output' = IF currentTime % HelloInterval = 0
                 THEN Append(output,
                        HelloOf(Restrict(oneHopNeighbors,
                                    {k \in DOMAIN oneHopNeighbors :
                                        oneHopNeighbors[k].holdUntil > currentTime}),
                                id))
                 ELSE output
    /\ pc' = "tc"
    /\ UNCHANGED <<rx, currentTime, tables, tcSequenceNum, config, tcLog>>

\* if n.currentTime%5 == 0 { n.sendHello() }
sendHello ==
    /\ pc = "hello"
    /\ (currentTime % HelloInterval = 0) => draining
    /\ output' = IF currentTime % HelloInterval = 0
                 THEN Append(output, HelloOf(oneHopNeighbors, id))
                 ELSE output
    /\ pc' = "tc"
    /\ UNCHANGED <<rx, currentTime, tables, tcSequenceNum, config, tcLog>>

\* Mutant: sendTC does not increment tcSequenceNum.
sendTCSameSeq ==
    /\ pc = "tc"
    /\ (currentTime % TCInterval = 0) => draining
    /\ IF currentTime % TCInterval = 0
       THEN /\ output' = Append(output, TCMessage(id, id, tcSequenceNum, msSet))
            /\ tcLog' = Append(tcLog, tcSequenceNum)
       ELSE UNCHANGED <<output, tcLog>>
    /\ pc' = "data"
    /\ UNCHANGED <<rx, currentTime, tables, tcSequenceNum, config>>

\* if n.currentTime%10 == 0 { n.sendTC() }
sendTC ==
    /\ pc = "tc"
    /\ (currentTime % TCInterval = 0) => draining
    /\ IF currentTime % TCInterval = 0
       THEN /\ output' = Append(output, TCMessage(id, id, tcSequenceNum, msSet))
            /\ tcLog' = Append(tcLog, tcSequenceNum)
            /\ tcSequenceNum' = tcSequenceNum + 1
       ELSE UNCHANGED <<output, tcLog, tcSequenceNum>>
    /\ pc' = "data"
    /\ UNCHANGED <<rx, currentTime, tables, config>>

\* NewNode's nodeMsg argument.
nodeMsg == [msg |-> "m", delay |-> DataDelay, dst |-> 1]

\* What the body of if n.currentTime == n.nodeMsg.delay writes to
\* n.output: the body is the comment "send data msg" and nothing else.
dataSent(now, nm) == <<>>

\* if n.currentTime == n.nodeMsg.delay { // send data msg }
sendData ==
    /\ pc = "data"
    /\ output' = output \o dataSent(currentTime, nodeMsg)
    /\ pc' = "evict"
    /\ UNCHANGED <<rx, currentTime, tables, tcSequenceNum, config, tcLog>>

\* Mutant: the sweep compares with < and keeps an entry whose hold ends now.
ExpiredNeighborsStrict(one, now) ==
    {k \in DOMAIN one : one[k].holdUntil < now}

ExpiredNeighbors(one, now) ==
    {k \in DOMAIN one : one[k].holdUntil <= now}

evictNeighbors(one, now) ==
    Restrict(one, DOMAIN one \ ExpiredNeighbors(one, now))

\* The sweep as it would be if the two-hop set were deleted only for
\* holdUntil < now.
evictTwoHopsStrict(one, two, now) ==
    Restrict(two, DOMAIN two \ ExpiredNeighborsStrict(one, now))

\* The sweep as it would be without delete(n.twoHopNeighbors, k).
evictTwoHopsKeep(one, two, now) == two

evictTwoHops(one, two, now) ==
    Restrict(two, DOMAIN two \ ExpiredNeighbors(one, now))

\* The topology sweep as it would be with holdUntil < now.
evictTopologyStrict(topo, now) ==
    [dst \in DOMAIN topo |->
        Restrict(topo[dst],
                 {k \in DOMAIN topo[dst] : ~(topo[dst][k].holdUntil < now)})]

evictTopology(topo, now) ==
    [dst \in DOMAIN topo |->
        Restrict(topo[dst],
                 {k \in DOMAIN topo[dst] : ~(topo[dst][k].holdUntil <= now)})]

\* The expiry sweep as it would be if it also dropped the selectors whose
\* one-hop entry expires.
EvictSelectors ==
    /\ pc = "evict"
    /\ oneHopNeighbors' = evictNeighbors(oneHopNeighbors, currentTime)
    /\ twoHopNeighbors' =
           evictTwoHops(oneHopNeighbors, twoHopNeighbors, currentTime)
    /\ topologyTable' = evictTopology(topologyTable, currentTime)
    /\ msSet' = msSet \ ExpiredNeighbors(oneHopNeighbors, currentTime)
    /\ pc' = "inc"
    /\ UNCHANGED <<rx, currentTime, tcSequenceNum, config, output, tcLog>>

\* Remove old entries from the neighbor tables and from the TC tables.
Evict ==
    /\ pc = "evict"
    /\ oneHopNeighbors' = evictNeighbors(oneHopNeighbors, currentTime)
    /\ twoHopNeighbors' = evictTwoHops(oneHopNeighbors, twoHopNeighbors,
                                       currentTime)
    /\ topologyTable' = evictTopology(topologyTable, currentTime)
    /\ pc' = "inc"
    /\ UNCHANGED <<rx, currentTime, msSet, tcSequenceNum, config, output,
                   tcLog>>

\* n.currentTime++, and back to the ticker for the next tick.
IncTime(maxTime) ==
    /\ pc = "inc"
    /\ currentTime < maxTime
    /\ currentTime' = currentTime + 1
    /\ pc' = "select"
    /\ rx' = "none"
    /\ output' = <<>>
    /\ UNCHANGED <<tables, tcSequenceNum, config, tcLog>>

Run(hellos, tcs, datas, maxTime) ==
    \/ \E msg \in hellos : RecvHello(msg)
    \/ \E msg \in tcs : RecvTC(msg)
    \/ \E msg \in datas : RecvData(msg)
    \/ NoMsg
    \/ sendHello
    \/ sendTC
    \/ sendData
    \/ Evict
    \/ IncTime(maxTime)

----------------------------------------------------------------------------
(* Spec: a node built by NewNode (topologyHoldTime left at 0) that hears   *)
(* the HELLOs of two neighbors, TCs and DATA.                              *)

HelloMsgs == HellosOf(Neighbors, NodeIDs)
TCMsgs == TCsOf({0, 1}, {0}, {3})
DataMsgs == {DataMessage(1, 0, 0, 1, "d")}

Init == InitNode(NeighborHold, 0)
Next == Run(HelloMsgs, TCMsgs, DataMsgs, MaxTime)
Spec == Init /\ [][Next]_vars

----------------------------------------------------------------------------
(* SpecTC: a node whose caller set topologyHoldTime, so that topology      *)
(* entries outlive the tick that stored them.  It hears the TCs of one     *)
(* originator (and its own, looped back), for two destinations, and the    *)
(* HELLOs of one neighbor.                                                 *)

HelloMsgsTC == HellosOf({1}, {0, 1})
TCMsgsTC == TCsOf({0, 1}, 0..MaxSeq, {2, 3})

InitTC == InitNode(NeighborHold, TopologyHold)
NextTC == Run(HelloMsgsTC, TCMsgsTC, DataMsgs, MaxTimeTC)
SpecTC == InitTC /\ [][NextTC]_vars

----------------------------------------------------------------------------
(* SpecMPR: calculateMPRs applied to every pair of neighbor tables over    *)
(* three neighbors in which, as in the node, every two-hop key is a        *)
(* one-hop key stored under its own neighborID.                            *)

MPRNeighbors == {1, 2, 3}
MPRNodeIDs == {1, 2, 3, 4}

MPRInputs ==
    { f \in [MPRNeighbors -> {<<>>} \cup ({0, 1, 2} \X SUBSET MPRNodeIDs)] :
        \A k \in MPRNeighbors : f[k] # <<>> => k \notin f[k][2] }

InitMPR ==
    /\ pc = "call"
    /\ rx = "none"
    /\ currentTime = 0
    /\ \E f \in MPRInputs :
         LET keys == {k \in MPRNeighbors : f[k] # <<>>}
         IN  /\ oneHopNeighbors =
                  [k \in keys |-> OneHopNeighborEntry(k, f[k][1], NeighborHold)]
             /\ twoHopNeighbors = [k \in keys |-> f[k][2]]
    /\ msSet = {}
    /\ topologyTable = EmptyMap
    /\ tcSequenceNum = 0
    /\ neighborHoldTime = NeighborHold
    /\ topologyHoldTime = 0
    /\ output = <<>>
    /\ tcLog = <<>>
    /\ ctxDone = FALSE
    /\ draining = TRUE

CallMPRs ==
    /\ pc = "call"
    /\ oneHopNeighbors' = calculateMPRs(oneHopNeighbors, twoHopNeighbors)
    /\ pc' = IF SelectMPRs(oneHopNeighbors, twoHopNeighbors).panic
             THEN "panic" ELSE "ret"
    /\ UNCHANGED <<rx, currentTime, twoHopNeighbors, msSet, topologyTable,
                   tcSequenceNum, config, output, tcLog>>

SpecMPR == InitMPR /\ [][CallMPRs]_vars

\* calculateMPRs applied to every pair of tables over three keys, with no
\* relation between the two: a key may be in one table only and a two-hop
\* set may hold its own key.
InitMPRAny ==
    /\ pc = "call"
    /\ rx = "none"
    /\ currentTime = 0
    /\ \E oneKeys \in SUBSET MPRNeighbors :
         \E st \in [oneKeys -> {Bidirectional, Unidirectional, MPR}] :
             oneHopNeighbors =
                 [k \in oneKeys |-> OneHopNeighborEntry(k, st[k], NeighborHold)]
    /\ \E twoKeys \in SUBSET MPRNeighbors :
         \E th \in [twoKeys -> SUBSET MPRNodeIDs] :
             twoHopNeighbors = th
    /\ msSet = {}
    /\ topologyTable = EmptyMap
    /\ tcSequenceNum = 0
    /\ neighborHoldTime = NeighborHold
    /\ topologyHoldTime = 0
    /\ output = <<>>
    /\ tcLog = <<>>
    /\ ctxDone = FALSE
    /\ draining = TRUE

SpecMPRAny == InitMPRAny /\ [][CallMPRs]_vars

\* The node under a harness that may cancel ctx and may stop receiving from
\* Node.output, each at any moment and for good.

\* The harness cancels the context passed to run.
Cancel ==
    /\ ~ctxDone
    /\ ctxDone' = TRUE
    /\ UNCHANGED <<pc, rx, currentTime, tables, tcSequenceNum,
                   neighborHoldTime, topologyHoldTime, draining, output, tcLog>>

\* The harness stops receiving from Node.output.
StopReading ==
    /\ draining
    /\ draining' = FALSE
    /\ UNCHANGED <<pc, rx, currentTime, tables, tcSequenceNum,
                   neighborHoldTime, topologyHoldTime, ctxDone, output, tcLog>>

\* case <-ctx.Done(): return
Exit ==
    /\ pc = "select"
    /\ ctxDone
    /\ pc' = "done"
    /\ UNCHANGED <<rx, currentTime, tables, tcSequenceNum, config, output, tcLog>>

InitCancel == InitNode(NeighborHold, 0)

\* The steps of the node: the loop body, or the return on ctx.Done().
RunCancel == Run(HelloMsgsTC, TCMsgs, DataMsgs, MaxTimeCancel) \/ Exit

NextCancel == RunCancel \/ Cancel \/ StopReading

\* The ticker keeps firing, so a step of the loop that can be taken is
\* taken; select picks among its ready cases at random, so the ctx.Done()
\* case is not passed over for ever.
SpecCancel ==
    InitCancel /\ [][NextCancel]_vars /\ WF_vars(RunCancel) /\ SF_vars(Exit)

----------------------------------------------------------------------------
(* C1: hold discipline.                                                    *)

OneHopHolds == {oneHopNeighbors[k].holdUntil : k \in DOMAIN oneHopNeighbors}

TopologyEntries ==
    UNION { {topologyTable[d][s] : s \in DOMAIN topologyTable[d]}
            : d \in DOMAIN topologyTable }

TopologyHolds == {e.holdUntil : e \in TopologyEntries}

\* C1 as claimed: after every completed tick every one-hop entry and every
\* topology entry has holdUntil > currentTime, the clock after that tick.
C1_HoldStrictlyAfterClock ==
    (pc = "select" /\ currentTime > 0) =>
        \A h \in OneHopHolds \cup TopologyHolds : h > currentTime

\* C1 amended: after every completed tick every one-hop entry and every
\* topology entry has holdUntil >= currentTime, that is, holdUntil is
\* strictly greater than the time at which the tick's sweep ran.
C1_HoldDiscipline ==
    (pc = "select" /\ currentTime > 0) =>
        \A h \in OneHopHolds \cup TopologyHolds : h > currentTime - 1

C1_Witness ==
    /\ pc = "select"
    /\ currentTime > 0
    /\ currentTime \in OneHopHolds
    /\ TopologyHolds # {}

----------------------------------------------------------------------------
(* C2: the two-hop set of a neighbor is a snapshot of its last HELLO.      *)

TwoHopsUntouched(k) ==
    /\ k \in DOMAIN twoHopNeighbors
    /\ twoHopNeighbors'[k] = twoHopNeighbors[k]

\* What handling msg in the current state stores.
C2_Handled ==
    pc = "select" =>
        \A msg \in HelloMsgs :
            LET new == handleHello(msg, Node).twoHopNeighbors
            IN  /\ DOMAIN new = DOMAIN twoHopNeighbors \cup {msg.src}
                /\ new[msg.src] = (msg.unidir \cup msg.bidir) \ {id}
                /\ \A k \in DOMAIN twoHopNeighbors \ {msg.src} :
                      new[k] = twoHopNeighbors[k]

C2_NoOwnID == \A k \in DOMAIN twoHopNeighbors : id \notin twoHopNeighbors[k]

C2_OtherSteps ==
    (pc = "select" /\ rx' = "HELLO") \/
    \A k \in DOMAIN twoHopNeighbors' : TwoHopsUntouched(k)

\* C2: a step that handles a HELLO from s stores exactly
\* (unidir \cup bidir) \ {id} under s, whatever was stored before and
\* whatever the mpr list holds, and leaves the other sets alone; no other
\* step adds or changes a set; no set ever holds the node's own ID.
C2_TwoHopSnapshot ==
    [](C2_Handled /\ C2_NoOwnID) /\ [][C2_OtherSteps]_vars

\* A HELLO is about to replace a non-empty set by a disjoint non-empty one,
\* and lists in mpr an ID that the new set does not hold.
C2_Witness ==
    /\ pc = "select"
    /\ \E msg \in HelloMsgs :
         LET new == handleHello(msg, Node).twoHopNeighbors
         IN  /\ msg.src \in DOMAIN twoHopNeighbors
             /\ twoHopNeighbors[msg.src] # {}
             /\ new[msg.src] # {}
             /\ new[msg.src] \cap twoHopNeighbors[msg.src] = {}
             /\ (msg.mpr \ {id}) \ new[msg.src] # {}

----------------------------------------------------------------------------
(* C3: a Unidirectional neighbor is never selected as an MPR.              *)

HelloLists(msg) == msg.unidir \cup msg.bidir \cup msg.mpr

\* calculateMPRs on the current tables leaves Unidirectional entries alone.
C3_CalculateAlone ==
    LET r == calculateMPRs(oneHopNeighbors, twoHopNeighbors)
    IN  \A k \in DOMAIN oneHopNeighbors :
            oneHopNeighbors[k].state = Unidirectional =>
                r[k].state = Unidirectional

\* Handling a HELLO: calculateMPRs leaves alone what updateOneHopNeighbors
\* left Unidirectional, and an entry that goes from Unidirectional to MPR is
\* the sender's, whose HELLO lists this node.
C3_Handled ==
    pc = "select" =>
        \A msg \in HelloMsgs :
            LET one == updateOneHopNeighbors(msg, oneHopNeighbors,
                           currentTime + neighborHoldTime, id)
                new == handleHello(msg, Node).oneHopNeighbors
            IN  /\ \A k \in DOMAIN one :
                      one[k].state = Unidirectional =>
                          new[k].state = Unidirectional
                /\ \A k \in DOMAIN oneHopNeighbors :
                      (oneHopNeighbors[k].state = Unidirectional
                          /\ new[k].state = MPR) =>
                      (k = msg.src /\ id \in HelloLists(msg))

C3_OtherSteps ==
    (pc = "select" /\ rx' = "HELLO") \/
    \A k \in DOMAIN oneHopNeighbors \cap DOMAIN oneHopNeighbors' :
        oneHopNeighbors'[k].state = oneHopNeighbors[k].state

\* C3: no entry goes from Unidirectional to MPR except the sender's entry
\* in the handling of a HELLO that lists this node (which promotes it to
\* Bidirectional before the MPRs are recomputed); calculateMPRs alone never
\* turns a Unidirectional entry into MPR; no step other than the handling of
\* a HELLO changes a state.
C3_UnidirectionalNeverMPR ==
    [](C3_CalculateAlone /\ C3_Handled) /\ [][C3_OtherSteps]_vars

\* A HELLO that does not list this node is about to be handled while its
\* sender is Unidirectional with a non-empty two-hop set of its own and
\* is the only neighbor covering what it announces; it stays Unidirectional.
C3_Witness ==
    /\ pc = "select"
    /\ \E msg \in HelloMsgs :
         /\ msg.src \in DOMAIN oneHopNeighbors
         /\ oneHopNeighbors[msg.src].state = Unidirectional
         /\ id \notin HelloLists(msg)
         /\ (msg.unidir \cup msg.bidir) # {}
         /\ \E k \in DOMAIN oneHopNeighbors \ {msg.src} :
                oneHopNeighbors[k].state = MPR
         /\ handleHello(msg, Node).oneHopNeighbors[msg.src].state
                = Unidirectional

----------------------------------------------------------------------------
(* C4, C5: the MPR selection, on SpecMPR.                                  *)

MPRsOf(one) == {k \in DOMAIN one : one[k].state = MPR}

\* C4: right after calculateMPRs, every ID in the two-hop set of a
\* non-Unidirectional one-hop neighbor is in the two-hop set of a one-hop
\* neighbor in state MPR.
C4_MPRCover ==
    pc = "ret" =>
        \A k \in DOMAIN oneHopNeighbors :
            (oneHopNeighbors[k].state # Unidirectional
                /\ k \in DOMAIN twoHopNeighbors) =>
            \A x \in twoHopNeighbors[k] :
                \E j \in MPRsOf(oneHopNeighbors) :
                    j \in DOMAIN twoHopNeighbors /\ x \in twoHopNeighbors[j]

\* Two MPRs are needed: none of the three neighbors covers all alone.
C4_Witness ==
    /\ pc = "ret"
    /\ DOMAIN oneHopNeighbors = {1, 2, 3}
    /\ twoHopNeighbors = (1 :> {3}) @@ (2 :> {4}) @@ (3 :> {4})
    /\ MPRsOf(oneHopNeighbors) = {1, 2}

\* The candidates as the claim names them, and their prefixes in ascending
\* NodeID order.
C5_Candidates ==
    {k \in DOMAIN twoHopNeighbors \cap DOMAIN oneHopNeighbors :
        oneHopNeighbors[k].state # Unidirectional}

C5_Prefixes ==
    {{}} \cup {{k \in C5_Candidates : k <= m} : m \in C5_Candidates}

C5_Covers(P) ==
    UNION {twoHopNeighbors[k] : k \in C5_Candidates}
        \subseteq UNION {twoHopNeighbors[k] : k \in P}

C5_ShortestPrefix ==
    CHOOSE P \in C5_Prefixes :
        C5_Covers(P) /\ \A Q \in C5_Prefixes : C5_Covers(Q) => P \subseteq Q

\* C5: calculateMPRs puts in state MPR exactly the shortest prefix of the
\* ascending candidate list that covers the union of the candidates'
\* two-hop sets; the other entries that were MPR become Bidirectional, and
\* nothing else changes.
C5_AscendingGreedy ==
    pc = "call" =>
        LET r == calculateMPRs(oneHopNeighbors, twoHopNeighbors)
        IN  /\ DOMAIN r = DOMAIN oneHopNeighbors
            /\ MPRsOf(r) = C5_ShortestPrefix
            /\ \A k \in DOMAIN r :
                  r[k] = [oneHopNeighbors[k] EXCEPT !.state =
                            IF k \in C5_ShortestPrefix THEN MPR
                            ELSE IF @ = MPR THEN Bidirectional ELSE @]

\* The claim's first example: one-hop {1, 2} Bidirectional with two-hop
\* {1: {3, 4}, 2: {3}} yields the MPR set {1}.
C5_Witness ==
    /\ pc = "ret"
    /\ DOMAIN oneHopNeighbors = {1, 2}
    /\ twoHopNeighbors = (1 :> {3, 4}) @@ (2 :> {3})
    /\ oneHopNeighbors[1].state = MPR
    /\ oneHopNeighbors[2].state = Bidirectional

----------------------------------------------------------------------------
(* C6, C7: updateOneHopNeighbors.                                          *)

\* C6: for a HELLO whose sender is not in the one-hop table,
\* updateOneHopNeighbors adds {sender, Unidirectional, now + neighborHoldTime}
\* whatever the HELLO lists, and changes no other entry; the recomputation
\* of the MPRs in the same handling leaves the new entry as it is.
C6_FirstContact ==
    pc = "select" =>
        \A msg \in HelloMsgs :
            msg.src \notin DOMAIN oneHopNeighbors =>
                LET r == updateOneHopNeighbors(msg, oneHopNeighbors,
                             currentTime + neighborHoldTime, id)
                    e == [neighborID |-> msg.src, state |-> Unidirectional,
                          holdUntil |-> currentTime + neighborHoldTime]
                IN  /\ DOMAIN r = DOMAIN oneHopNeighbors \cup {msg.src}
                    /\ r[msg.src] = e
                    /\ \A k \in DOMAIN oneHopNeighbors :
                          r[k] = oneHopNeighbors[k]
                    /\ handleHello(msg, Node).oneHopNeighbors[msg.src] = e

\* A first HELLO that lists this node as bidirectional reaches a node that
\* already has another neighbor.
C6_Witness ==
    /\ pc = "select"
    /\ \E msg \in HelloMsgs :
         /\ msg.src \notin DOMAIN oneHopNeighbors
         /\ DOMAIN oneHopNeighbors # {}
         /\ id \in msg.bidir
         /\ handleHello(msg, Node).oneHopNeighbors[msg.src].state
                = Unidirectional

C7_Update ==
    pc = "select" =>
        \A msg \in HelloMsgs :
            msg.src \in DOMAIN oneHopNeighbors =>
                LET r == updateOneHopNeighbors(msg, oneHopNeighbors,
                             currentTime + neighborHoldTime, id)
                    old == oneHopNeighbors[msg.src]
                IN  /\ DOMAIN r = DOMAIN oneHopNeighbors
                    /\ r[msg.src].holdUntil = currentTime + neighborHoldTime
                    /\ r[msg.src].neighborID = old.neighborID
                    /\ r[msg.src].state =
                          IF id \in HelloLists(msg) THEN Bidirectional
                          ELSE old.state
                    /\ \A k \in DOMAIN oneHopNeighbors \ {msg.src} :
                          r[k] = oneHopNeighbors[k]

C7_Step ==
    \A k \in DOMAIN oneHopNeighbors :
        IF k \in DOMAIN oneHopNeighbors'
        THEN oneHopNeighbors[k].state # Unidirectional =>
                 oneHopNeighbors'[k].state # Unidirectional
        ELSE pc = "evict" /\ oneHopNeighbors[k].holdUntil <= currentTime

\* C7: for a HELLO whose sender is in the one-hop table,
\* updateOneHopNeighbors sets holdUntil to now + neighborHoldTime and the
\* state to Bidirectional if the node's ID is in one of the three lists, and
\* leaves the state alone otherwise; in no step does an entry that is
\* Bidirectional or MPR become Unidirectional, and an entry leaves the table
\* only in the sweep, its hold expired.
C7_PromotionWithoutDemotion == []C7_Update /\ [][C7_Step]_vars

\* An MPR's HELLO stops listing this node; it stays Bidirectional or MPR.
C7_Witness ==
    /\ pc = "select"
    /\ \E msg \in HelloMsgs :
         /\ msg.src \in DOMAIN oneHopNeighbors
         /\ oneHopNeighbors[msg.src].state = MPR
         /\ id \notin HelloLists(msg)
         /\ handleHello(msg, Node).oneHopNeighbors[msg.src].state
                # Unidirectional
         /\ handleHello(msg, Node).oneHopNeighbors[msg.src].holdUntil
                > oneHopNeighbors[msg.src].holdUntil

----------------------------------------------------------------------------
(* C8: handling the same HELLO twice at the same tick.                     *)

\* C8 as claimed: in every reachable state, for every HELLO, handling it
\* twice at the same currentTime gives the tables that handling it once
\* gives.
C8_Idempotent ==
    pc = "select" =>
        \A msg \in HelloMsgs :
            handleHello(msg, handleHello(msg, Node)) = handleHello(msg, Node)

\* C8 amended: that holds for every HELLO whose sender is already in the
\* one-hop table or which lists the node's ID in none of its three lists.
C8_IdempotentKnownSender ==
    pc = "select" =>
        \A msg \in HelloMsgs :
            (msg.src \in DOMAIN oneHopNeighbors \/ id \notin HelloLists(msg))
            => handleHello(msg, handleHello(msg, Node))
                   = handleHello(msg, Node)

\* A HELLO from a known Unidirectional sender that names this node as its
\* MPR changes all three tables when it is handled.
C8_Witness ==
    /\ pc = "select"
    /\ \E msg \in HelloMsgs :
         LET n == handleHello(msg, Node)
         IN  /\ msg.src \in DOMAIN oneHopNeighbors
             /\ oneHopNeighbors[msg.src].state = Unidirectional
             /\ id \in msg.mpr
             /\ n.oneHopNeighbors[msg.src].state = MPR
             /\ n.twoHopNeighbors # twoHopNeighbors
             /\ n.msSet # msSet
             /\ handleHello(msg, n) = n

----------------------------------------------------------------------------
(* C9: the sequence numbers of the TCs the node originates.                *)

OwnTCs(out) == SelectSeq(out, LAMBDA m : m.type = "TC" /\ m.src = id)

\* C9: the i-th TC that sendTC writes carries seq i - 1 (the first carries
\* 0, each next one exactly 1 more), tcSequenceNum is the number of TCs
\* written so far, so nothing but sendTC changes it, and a TC the node
\* originates in a tick is the last one logged.
C9_TCSequence ==
    /\ tcSequenceNum = Len(tcLog)
    /\ \A i \in 1..Len(tcLog) : tcLog[i] = i - 1
    /\ \A i \in 1..Len(OwnTCs(output)) :
          OwnTCs(output)[i].seq = tcLog[Len(tcLog)]

\* The third TC has been written in a tick that also forwarded a received
\* TC whose seq is another one.
C9_Witness ==
    /\ pc = "evict"
    /\ rx = "TC"
    /\ Len(tcLog) = 3
    /\ Len(output) = 3
    /\ output[1].type = "TC" /\ output[1].src # id /\ output[1].seq = 1
    /\ output[2].type = "HELLO"
    /\ output[3].type = "TC" /\ output[3].src = id /\ output[3].seq = 2

----------------------------------------------------------------------------
(* C10: TC dedup.                                                          *)

\* C10: for a stored entry topologyTable[d][s], updateTopologyTable with a
\* TC from s that lists d leaves the entry as it is when the TC's seq is at
\* most the entry's msSeqNum, and otherwise changes only its holdUntil, to
\* now + topologyHoldTime.
C10_TCDedup ==
    pc = "select" =>
        \A msg \in TCMsgsTC : \A d \in msg.ms :
            (d \in DOMAIN topologyTable /\ msg.src \in DOMAIN topologyTable[d])
            => LET e == topologyTable[d][msg.src]
                   r == updateTopologyTable(msg, topologyTable,
                            currentTime + topologyHoldTime)[d][msg.src]
               IN  IF msg.seq <= e.msSeqNum
                   THEN r = e
                   ELSE r = [e EXCEPT !.holdUntil =
                                currentTime + topologyHoldTime]

\* The claim's example: an entry stored a tick ago meets a second TC with
\* the same seq, and keeps the holdUntil it has.
C10_Witness ==
    /\ pc = "select"
    /\ \E msg \in TCMsgsTC : \E d \in msg.ms :
         /\ msg.src # id
         /\ d \in DOMAIN topologyTable
         /\ msg.src \in DOMAIN topologyTable[d]
         /\ topologyTable[d][msg.src].msSeqNum = msg.seq
         /\ topologyTable[d][msg.src].holdUntil
                < currentTime + topologyHoldTime
         /\ updateTopologyTable(msg, topologyTable,
                currentTime + topologyHoldTime)[d][msg.src]
                = topologyTable[d][msg.src]

\* Handling any HELLO leaves its sender in msSet exactly when the HELLO lists
\* this node in mpr, and changes the membership of no other node.
C11_Handled ==
    pc = "select" =>
        \A msg \in HelloMsgsTC :
            LET n == handleHello(msg, Node)
            IN  /\ (msg.src \in n.msSet) <=> (id \in msg.mpr)
                /\ n.msSet \ {msg.src} = msSet \ {msg.src}

\* Every TC of this node written during the tick announces msSet as it is.
C11_Announced ==
    \A i \in 1..Len(output) :
        (output[i].type = "TC" /\ output[i].src = id /\ output[i].fromnbr = id
            /\ pc \in {"data", "evict", "inc"})
        => output[i].ms = msSet

\* Only the handling of a HELLO writes msSet.
C11_OtherSteps == (pc = "select" /\ rx' = "HELLO") \/ msSet' = msSet

\* C11: a node s is in msSet exactly when the HELLO from s handled last
\* listed this node in its mpr list; no other step, the expiry sweep
\* included, changes msSet, so s stays in msSet and in the TCs emitted
\* afterwards once its one-hop entry has been evicted.
C11_MSSetTracksLatestHello ==
    [](C11_Handled /\ C11_Announced) /\ [][C11_OtherSteps]_vars

\* A TC of this node announces selector 1 although 1 has no one-hop entry.
C11_Witness ==
    /\ pc = "evict"
    /\ currentTime = TCInterval
    /\ 1 \in msSet
    /\ 1 \notin DOMAIN oneHopNeighbors
    /\ \E i \in 1..Len(output) :
           /\ output[i].type = "TC"
           /\ output[i].src = id
           /\ 1 \in output[i].ms

\* The TCs of other nodes that handleTC has written again during this tick.
ForwardedTCs(out) ==
    { i \in 1..Len(out) : out[i].type = "TC" /\ out[i].src # id }

\* C12: a received TC is forwarded only if msSet holds at least one selector
\* when it is received; a node whose msSet is empty forwards no TC.  (msSet
\* is written by handleHello alone, so during the tick of a handled TC it is
\* what it was at reception.)
C12_MSGatedFlooding ==
    ForwardedTCs(output) # {} => msSet # {}

\* The DATA messages written to the transmitter during this tick.
DataEmitted(out) == { i \in 1..Len(out) : out[i].type = "DATA" }

\* C13: once the emitting steps of a tick are over, the transmitter has
\* received exactly one DATA message if currentTime equals the delay of the
\* node's configured message, and none at any other tick.
C13_OneShotData ==
    pc \in {"evict", "inc"} =>
        Cardinality(DataEmitted(output)) =
            IF currentTime = nodeMsg.delay THEN 1 ELSE 0

\* The HELLOs written to the transmitter during this tick.
HellosEmitted(out) == { i \in 1..Len(out) : out[i].type = "HELLO" }

\* The TCs of this node written to the transmitter during this tick.
TCsEmitted(out) == { i \in 1..Len(out) : out[i].type = "TC" /\ out[i].src = id }

\* Between the emissions and the sweep the transmitter holds, in this
\* order, what the handler forwarded, then the HELLO on a multiple of 5,
\* then the TC on a multiple of 10; the HELLO lists the one-hop table as the
\* handler left it and as the sweep has not yet cut it.
C14_Emitted ==
    pc \in {"data", "evict"} =>
        /\ Cardinality(HellosEmitted(output)) =
               IF currentTime % HelloInterval = 0 THEN 1 ELSE 0
        /\ Cardinality(TCsEmitted(output)) =
               IF currentTime % TCInterval = 0 THEN 1 ELSE 0
        /\ \A i \in HellosEmitted(output) :
               output[i] = HelloOf(oneHopNeighbors, id)
        /\ \A i \in ForwardedTCs(output) :
               \A j \in HellosEmitted(output) \cup TCsEmitted(output) : i < j
        /\ \A i \in HellosEmitted(output) : \A j \in TCsEmitted(output) : i < j

\* The steps of a tick follow one another in the order of the loop body:
\* one select, the two periodic emissions, the data check, the sweep and
\* last the increment of currentTime by 1.
C14_Step ==
    /\ pc = "select" =>
           /\ pc' = "hello"
           /\ currentTime' = currentTime
           /\ HellosEmitted(output') = {} /\ TCsEmitted(output') = {}
    /\ pc = "hello" => pc' = "tc" /\ UNCHANGED <<tables, currentTime>>
    /\ pc = "tc" => pc' = "data" /\ UNCHANGED <<tables, currentTime>>
    /\ pc = "data" => pc' = "evict" /\ UNCHANGED <<tables, currentTime>>
    /\ pc = "evict" =>
           /\ pc' = "inc"
           /\ UNCHANGED <<output, currentTime>>
           /\ DOMAIN oneHopNeighbors' =
                  {k \in DOMAIN oneHopNeighbors :
                      oneHopNeighbors[k].holdUntil > currentTime}
    /\ pc = "inc" =>
           /\ pc' = "select"
           /\ currentTime' = currentTime + 1
           /\ UNCHANGED tables

\* C14: within a tick the node handles at most one message, then emits the
\* HELLO (currentTime mod 5 = 0) and the TC (currentTime mod 10 = 0), then
\* evicts, then adds exactly 1 to currentTime; the HELLO of tick t shows
\* the tables as the message handled at t left them and still lists the
\* entries with holdUntil = t that the sweep of t removes.
C14_IntraTickOrder == []C14_Emitted /\ [][C14_Step]_vars

\* Tick 5 after its sweep: a TC was handled and forwarded first, the HELLO
\* written after it lists neighbor 1, and the sweep has since evicted 1.
C14_Witness ==
    /\ pc = "inc"
    /\ currentTime = HelloInterval
    /\ rx = "TC"
    /\ Len(output) = 2
    /\ output[1].type = "TC" /\ output[1].fromnbr = id
    /\ output[2].type = "HELLO"
    /\ 1 \in output[2].unidir \cup output[2].bidir \cup output[2].mpr
    /\ 1 \notin DOMAIN oneHopNeighbors

\* C15: once ctx is cancelled the loop exits, in every interleaving, also
\* when a message is ready on input and when nobody receives from the
\* transmitter: in the ticks modelled, a node whose ctx is cancelled has
\* either returned or can take a further step of run, so it is never left
\* waiting for good.
C15_CancelledNodeExits ==
    (ctxDone /\ currentTime < MaxTimeCancel) =>
        (pc = "done" \/ ENABLED RunCancel)

\* C16: calculateMPRs applied to its own result, the two-hop table being the
\* same, returns that result: the table calculateMPRs has just returned is a
\* fixed point, and so is its result on every one-hop table cut down to a
\* subset of its keys (two-hop keys then lack a one-hop entry).
C16_CalculateIdempotent ==
    /\ pc = "ret" =>
           calculateMPRs(oneHopNeighbors, twoHopNeighbors) = oneHopNeighbors
    /\ pc = "call" =>
           \A S \in SUBSET DOMAIN oneHopNeighbors :
               LET once == calculateMPRs(Restrict(oneHopNeighbors, S),
                                         twoHopNeighbors)
               IN  calculateMPRs(once, twoHopNeighbors) = once

\* A result with an MPR, a Bidirectional neighbor left unselected and a
\* Unidirectional neighbor whose two-hop set is not empty.
C16_Witness ==
    /\ pc = "ret"
    /\ MPRsOf(oneHopNeighbors) # {}
    /\ \E k \in DOMAIN oneHopNeighbors :
           oneHopNeighbors[k].state = Bidirectional
    /\ \E k \in DOMAIN oneHopNeighbors :
           /\ oneHopNeighbors[k].state = Unidirectional
           /\ twoHopNeighbors[k] # {}

\* What handling the TC msg does to the tables and to the transmitter.
C17_Handled(msg) ==
    IF msg.src = id
    THEN UNCHANGED <<tables, output>>
    ELSE /\ UNCHANGED <<oneHopNeighbors, twoHopNeighbors, msSet>>
         /\ Len(output') = Len(output) + 1
         /\ SubSeq(output', 1, Len(output)) = output
         /\ output'[Len(output')] =
                TCMessage(msg.src, id, msg.seq, msg.ms)

\* C17: a received TC whose src is the node's own ID changes no table and
\* emits nothing; every other received TC is written to the transmitter
\* exactly once, with fromnbr set to the node's ID and with its src, seq and
\* ms, whether or not it changed the topology table.
C17_TCForwarding ==
    [][\A msg \in TCMsgsTC : RecvTC(msg) => C17_Handled(msg)]_vars

\* A TC just forwarded although every destination it lists already had an
\* entry for its src with a seq at least as new.
C17_Witness ==
    /\ pc = "hello"
    /\ rx = "TC"
    /\ Len(output) = 1
    /\ output[1].fromnbr = id
    /\ output[1].src = 1
    /\ output[1].ms # {}
    /\ \A d \in output[1].ms :
           /\ d \in DOMAIN topologyTable
           /\ 1 \in DOMAIN topologyTable[d]
           /\ topologyTable[d][1].msSeqNum >= output[1].seq
           /\ topologyTable[d][1].holdUntil < currentTime + topologyHoldTime

\* The one-hop keys the sweep at time now has to remove.
C18_Expired == {k \in DOMAIN oneHopNeighbors :
                   oneHopNeighbors[k].holdUntil <= currentTime}

\* What the sweep does to the two neighbor tables.
C18_Swept ==
    /\ DOMAIN oneHopNeighbors' = DOMAIN oneHopNeighbors \ C18_Expired
    /\ \A k \in DOMAIN oneHopNeighbors' :
           oneHopNeighbors'[k] = oneHopNeighbors[k]
    /\ DOMAIN twoHopNeighbors' = DOMAIN twoHopNeighbors \ C18_Expired
    /\ \A k \in DOMAIN twoHopNeighbors' :
           twoHopNeighbors'[k] = twoHopNeighbors[k]

\* C18: the sweep of a tick at time now removes exactly the one-hop entries
\* with holdUntil <= now and the two-hop sets stored under their keys; the
\* entries with holdUntil > now and their two-hop sets stay as they were,
\* states included.
C18_NeighborEviction == [][pc = "evict" => C18_Swept]_vars

\* A sweep about to remove one neighbor and keep the other, whose state
\* calculateMPRs would change on the tables the sweep leaves.
C18_Witness ==
    /\ pc = "evict"
    /\ C18_Expired # {}
    /\ C18_Expired # DOMAIN oneHopNeighbors
    /\ LET one == evictNeighbors(oneHopNeighbors, currentTime)
           two == evictTwoHops(oneHopNeighbors, twoHopNeighbors, currentTime)
       IN  calculateMPRs(one, two) # one

\* An entry that is in the table before and after a step has the same
\* msSeqNum after it.
C19_SeqKept ==
    \A d \in DOMAIN topologyTable \cap DOMAIN topologyTable' :
        \A s \in DOMAIN topologyTable[d] \cap DOMAIN topologyTable'[d] :
            topologyTable'[d][s].msSeqNum = topologyTable[d][s].msSeqNum

\* The TCs m2 then m3 of one src, both listing d, with the seq stored for
\* (d, src) below m3.seq and m3.seq below m2.seq.
C19_Pairs(d) ==
    { p \in TCMsgsTC \X TCMsgsTC :
        /\ p[1].src = p[2].src
        /\ p[1].src # id
        /\ d \in p[1].ms \cap p[2].ms
        /\ p[1].src \in DOMAIN topologyTable[d]
        /\ topologyTable[d][p[1].src].msSeqNum < p[2].seq
        /\ p[2].seq < p[1].seq }

\* m2 accepted at this tick and m3 at the next both set holdUntil, and the
\* stored seq is still the one the entry was created with.
C19_Refreshed(d, m2, m3) ==
    LET hold == currentTime + topologyHoldTime
        t1 == updateTopologyTable(m2, topologyTable, hold)
        t2 == updateTopologyTable(m3, t1, hold + 1)
    IN  /\ t1[d][m2.src].holdUntil = hold
        /\ t2[d][m2.src].holdUntil = hold + 1
        /\ t2[d][m2.src].msSeqNum = topologyTable[d][m2.src].msSeqNum

C19_StaleRefresh ==
    pc = "select" =>
        \A d \in DOMAIN topologyTable :
            \A p \in C19_Pairs(d) : C19_Refreshed(d, p[1], p[2])

\* C19: the msSeqNum of topologyTable[d][s] stays the seq of the TC that
\* created the entry for as long as the entry is in the table; so once TCs
\* of s with seq q1 and then q2 > q1 were accepted, a later TC of s with
\* q1 < q3 < q2 still sets the entry's holdUntil.
C19_SeqNeverAdvanced == []C19_StaleRefresh /\ [][C19_SeqKept]_vars

\* An entry created with seq 0 and refreshed since, in front of a TC with
\* seq 2 and a later one with seq 1.
C19_Witness ==
    /\ pc = "select"
    /\ \E d \in DOMAIN topologyTable :
           /\ 1 \in DOMAIN topologyTable[d]
           /\ topologyTable[d][1].msSeqNum = 0
           /\ topologyTable[d][1].holdUntil = currentTime + 1
           /\ \E p \in C19_Pairs(d) :
                  /\ p[1].seq = 2
                  /\ p[2].seq = 1
                  /\ C19_Refreshed(d, p[1], p[2])

\* The nodes calculateMPRs selects on the tables one and two are keys of one.
C20_SelectsNeighbors(one, two) == SelectMPRs(one, two).mprs \subseteq DOMAIN one

\* The call of calculateMPRs inside handleHello, for every HELLO that can
\* be handled now, selects one-hop neighbors only.
C20_Handled ==
    pc = "select" =>
        \A msg \in HelloMsgs :
            C20_SelectsNeighbors(
                updateOneHopNeighbors(msg, oneHopNeighbors,
                    currentTime + neighborHoldTime, id),
                updateTwoHopNeighbors(msg, twoHopNeighbors, id))

\* C20: in every state reached from NewNode by handled messages and ticks,
\* every key of twoHopNeighbors is a key of oneHopNeighbors and the one-hop
\* entry under key k has neighborID k; so calculateMPRs, for which a two-hop
\* key without one-hop entry counts as Bidirectional, never selects a node
\* that is not a one-hop neighbor.
C20_TableConsistency ==
    /\ DOMAIN twoHopNeighbors \subseteq DOMAIN oneHopNeighbors
    /\ \A k \in DOMAIN oneHopNeighbors : oneHopNeighbors[k].neighborID = k
    /\ C20_SelectsNeighbors(oneHopNeighbors, twoHopNeighbors)
    /\ C20_Handled

\* Past the first expiries a HELLO of neighbor 1 is handled: 1 is the only
\* key of both tables, 2 is its two-hop neighbor and calculateMPRs has
\* selected 1.
C20_Witness ==
    /\ pc = "hello"
    /\ rx = "HELLO"
    /\ currentTime > NeighborHold
    /\ DOMAIN oneHopNeighbors = {1}
    /\ DOMAIN twoHopNeighbors = {1}
    /\ 2 \in twoHopNeighbors[1]
    /\ oneHopNeighbors[1].state = MPR

\* The two-hop IDs still uncovered after i iterations of the loop over the
\* sorted candidates nodes.
C21_Remaining(one, two, nodes, i) ==
    RemainingTwoHops(one, two) \ UNION {two[nodes[j]] : j \in 1..i}

\* Before every iteration the loop can reach, uncovered IDs left means
\* candidates left.
C21_LoopInvariant(one, two) ==
    LET nodes == SortedNodes(Candidates(one, two))
    IN  \A i \in 0..Len(nodes) :
            C21_Remaining(one, two, nodes, i) # {} => i < Len(nodes)

\* C21: for every one-hop table and two-hop table, while two-hop IDs are
\* uncovered the sorted candidate list is not empty, so calculateMPRs never
\* indexes an empty list, and the loop runs at most once per candidate (each
\* iteration adds one new candidate to mprs).
C21_MPRLoopSafe ==
    /\ pc # "panic"
    /\ pc = "call" =>
           /\ C21_LoopInvariant(oneHopNeighbors, twoHopNeighbors)
           /\ ~SelectMPRs(oneHopNeighbors, twoHopNeighbors).panic
           /\ Cardinality(SelectMPRs(oneHopNeighbors, twoHopNeighbors).mprs)
                  <= Cardinality(Candidates(oneHopNeighbors, twoHopNeighbors))

\* calculateMPRs has returned after one iteration per candidate, one of them
\* a two-hop key without one-hop entry, another key being Unidirectional.
C21_Witness ==
    /\ pc = "ret"
    /\ DOMAIN twoHopNeighbors = {1, 2, 3}
    /\ DOMAIN oneHopNeighbors = {1, 2}
    /\ oneHopNeighbors[1].state = Unidirectional
    /\ twoHopNeighbors[1] # {}
    /\ SelectMPRs(oneHopNeighbors, twoHopNeighbors).mprs = {2, 3}

\* C22: with topologyHoldTime left at 0 by NewNode, every topology entry in
\* the table between the handler and the sweep of tick t has holdUntil = t,
\* and once the sweep of a tick has run, up to the next handled message,
\* every inner map of topologyTable is empty.
C22_TopologyEmptyAfterTick ==
    /\ topologyHoldTime = 0
    /\ pc \in {"hello", "tc", "data", "evict"} =>
           \A e \in TopologyEntries : e.holdUntil = currentTime
    /\ pc \in {"inc", "select"} =>
           \A d \in DOMAIN topologyTable : DOMAIN topologyTable[d] = {}

\* The sweep of a tick in which a TC listing destination 3 was handled and
\* forwarded: the key 3 is still in the table, its inner map is empty.
C22_Witness ==
    /\ pc = "inc"
    /\ rx = "TC"
    /\ Len(output) > 0
    /\ output[1].type = "TC" /\ output[1].src = 1 /\ 3 \in output[1].ms
    /\ 3 \in DOMAIN topologyTable
    /\ DOMAIN topologyTable[3] = {}
====
